---- MODULE Spec2Model ----
(***************************************************************************)
(* Model of DotnetDecompiler.execute                                       *)
(* (src/dotnet_decompiler/dotnet_decompiler.py).                           *)
(*                                                                         *)
(* Text is modelled character by character: a str is a sequence of        *)
(* one-character strings, a file is a sequence of lines, each line ending  *)
(* with "\n" as Python's file iteration yields it.  The captured stderr    *)
(* of a process is a sequence of message fragments; the substring test     *)
(* `b"..." in p.stderr` is membership of a fragment.                       *)
(***************************************************************************)
EXTENDS Integers, Sequences, FiniteSets, TLC

(***************************************************************************)
(* Bounds                                                                  *)
(***************************************************************************)
MaxLines == 4      \* lines in the decompiled file
MaxErr   == 2      \* fragments in the captured stderr
MaxFiles == 1      \* files in the extracted project tree
MaxRem   == 4      \* characters after the "[assembly: " prefix (SpecParse)

(***************************************************************************)
(* str helpers                                                             *)
(***************************************************************************)
Last(s) == s[Len(s)]

\* c in s
InStr(c, s) == \E n \in 1..Len(s) : s[n] = c

\* s.startswith(pre)
StartsWith(s, pre) == Len(s) >= Len(pre) /\ SubSeq(s, 1, Len(pre)) = pre

\* index of the first occurrence of c in s (c occurs in s)
Find(s, c) == CHOOSE n \in 1..Len(s) : s[n] = c /\ \A m \in 1..(n-1) : s[m] # c

\* s.split(c, 1): a list of one or two strings
Split1(s, c) ==
    IF InStr(c, s)
    THEN << SubSeq(s, 1, Find(s, c) - 1), SubSeq(s, Find(s, c) + 1, Len(s)) >>
    ELSE << s >>

\* s[::-1]
Reverse(s) == [n \in 1..Len(s) |-> s[Len(s) + 1 - n]]

\* mutant: line[10:]
Slice11_OffByOne(line) == SubSeq(line, 11, Len(line))

\* line[11:]
Slice11(line) == SubSeq(line, 12, Len(line))

\* "[assembly: "
Prefix == <<"[", "a", "s", "s", "e", "m", "b", "l", "y", ":", " ">>

\* "SuppressIldasm"
SuppressIldasm == <<"S", "u", "p", "p", "r", "e", "s", "s", "I", "l", "d", "a", "s", "m">>

\* lines 58-64: the (k, v) pair recorded for an attribute line
ParseLine(line) ==
    IF ~InStr("(", line) \/ ~InStr(")", line)
    THEN << Split1(Slice11(line), "]")[1], <<>> >>
    ELSE LET kv == Split1(Slice11(line), "(")
         IN  << kv[1], Reverse(Last(Split1(Reverse(kv[2]), ")"))) >>

(***************************************************************************)
(* Inputs: what the external tool can leave behind                         *)
(***************************************************************************)
\* mutant: the managed-metadata signature is not tested
Signatures_WithoutMetadata ==
    { "System.BadImageFormatException",
      "PEFileNotSupportedException",
      "System.NullReferenceException: Object reference not set to an instance of an object" }

\* mutant: any null-reference crash is taken for the corrupted-file one
Signatures_AnyNullReference ==
    { "System.BadImageFormatException",
      "PEFileNotSupportedException",
      "System.NullReferenceException: Object reference not set to an instance of an object",
      "System.NullReferenceException",
      "PE file does not contain any managed metadata" }

\* the four stderr signatures of lines 28-37, in the order they are tested
Signatures ==
    { "System.BadImageFormatException",
      "PEFileNotSupportedException",
      "System.NullReferenceException: Object reference not set to an instance of an object",
      "PE file does not contain any managed metadata" }

\* what ilspycmd prints on stderr: the signatures and other messages
Fragments ==
    { "System.BadImageFormatException",
      "PEFileNotSupportedException",
      "System.NullReferenceException: Object reference not set to an instance of an object",
      "PE file does not contain any managed metadata",
      "Unhandled exception",
      "System.NullReferenceException" }

RECURSIVE SeqsUpTo(_, _)
SeqsUpTo(S, n) ==
    IF n = 0 THEN { <<>> }
    ELSE LET shorter == SeqsUpTo(S, n - 1)
         IN  shorter \cup { Append(s, x) : s \in shorter, x \in S }

StdErrs == SeqsUpTo(Fragments, MaxErr)

\* stderr of a run that exits 0: nothing, or a message that is not acted on
QuietStdErrs == { <<>>, <<"System.BadImageFormatException">> }

RetCodes == {0, 1}

Line_A1 == <<"[", "a", "s", "s", "e", "m", "b", "l", "y", ":", " ", "A", "(", "1", ")", "]", "\n">>
Line_B2 == <<"[", "a", "s", "s", "e", "m", "b", "l", "y", ":", " ", "B", "(", "2", ")", "]", "\n">>
Line_C3 == <<"[", "a", "s", "s", "e", "m", "b", "l", "y", ":", " ", "C", "(", "3", ")", "]", "\n">>
Line_Suppress == <<"[", "a", "s", "s", "e", "m", "b", "l", "y", ":", " ", "S", "u", "p", "p", "r", "e", "s", "s", "I", "l", "d", "a", "s", "m", "]", "\n">>
Line_Blank == <<"\n">>
Line_Namespace == <<"n", "a", "m", "e", "s", "p", "a", "c", "e", " ", "X", " ", "{", "\n">>

LinePool == { Line_A1, Line_B2, Line_C3, Line_Suppress, Line_Blank, Line_Namespace }

DecompiledFiles == SeqsUpTo(LinePool, MaxLines)

\* (directory relative to the project folder, file name) as os.walk yields them
ProjectPool == { <<".", "sample.csproj">>,
                 <<"Properties", "AssemblyInfo.cs">> }

ProjectTrees == { t \in SUBSET ProjectPool : Cardinality(t) <= MaxFiles }

\* lines 133-135: os.path.join(relpath(root, project_folder), f) without "./"
RelPath(root, f) == IF root = "." THEN << f >> ELSE << root, f >>

(***************************************************************************)
(* State                                                                   *)
(***************************************************************************)
VARIABLES
    pc,                 \* position in execute
    outcome,            \* "running", "returned" or "raised"
    exc,                \* the raised exception, <<>> when none
    running,            \* external processes started and not yet finished
    p,                  \* the last CompletedProcess
    decompiled_exists,  \* <working_directory>/<stem>.decompiled.cs exists
    decompiled_lines,   \* its lines
    project_files,      \* regular files under <working_directory>/project
    i,                  \* index of the next line the for loop reads
    assembly_info,      \* the ResultOrderedKeyValueSection
    information_keys,   \* set of recorded keys
    result,             \* titles of the sections of request.result
    extracted,          \* request.add_extracted calls
    supplementary,      \* request.add_supplementary calls
    walk,               \* project files os.walk has not yielded yet
    trace               \* calls made on the collaborators, in order

vars == << pc, outcome, exc, running, p, decompiled_exists, decompiled_lines,
           project_files, i, assembly_info, information_keys, result,
           extracted, supplementary, walk, trace >>

Event(ev, what, rc) == [ev |-> ev, what |-> what, rc |-> rc]

Artifact(name, description) == [name |-> name, description |-> description]

DecompiledArtifact == Artifact(<<"sample.decompiled.cs">>, "Decompiled file")
IlArtifact         == Artifact(<<"sample.il">>, "IL Code file")
ZipArtifact        == Artifact(<<"project.zip">>, "Project folder")
ProjectArtifact(f) == Artifact(RelPath(f[1], f[2]), "Project file")

SectionTitle  == "Assembly Information"
AdvisoryTitle == "SuppressIldasm attribute found"

\* ResultOrderedKeyValueSection.body is falsy until an item is added
Body(section) == section.items # <<>>

Init ==
    /\ pc = "start"
    /\ outcome = "running"
    /\ exc = <<>>
    /\ running = {}
    /\ p = [args |-> "none", returncode |-> 0, stderr |-> <<>>]
    /\ decompiled_exists = FALSE
    /\ decompiled_lines = <<>>
    /\ project_files = {}
    /\ i = 1
    /\ assembly_info = [items |-> <<>>, subsections |-> <<>>]
    /\ information_keys = {}
    /\ result = <<>>
    /\ extracted = <<>>
    /\ supplementary = <<>>
    /\ walk = {}
    /\ trace = <<>>

(***************************************************************************)
(* execute                                                                 *)
(***************************************************************************)
\* b"..." in p.stderr
InBytes(sig, err) == \E n \in 1..Len(err) : err[n] = sig

\* lines 20-24: request.result = Result(); the whole-file decompilation starts
StartPrimary ==
    /\ pc = "start"
    /\ result' = <<>>
    /\ running' = running \cup {"decompile"}
    /\ trace' = Append(trace, Event("run", "decompile", 0))
    /\ pc' = "wait_primary"
    /\ UNCHANGED << outcome, exc, p, decompiled_exists, decompiled_lines,
                    project_files, i, assembly_info, information_keys,
                    extracted, supplementary, walk >>

\* lines 24-41: subprocess.run returns; the exit code and stderr are classified.
\* The tool chooses its exit code, its stderr and what it leaves in the
\* working directory; a run that fails leaves no output file.
PrimaryExit ==
    /\ pc = "wait_primary"
    /\ \E rc \in RetCodes, err \in StdErrs, exists \in BOOLEAN, lines \in DecompiledFiles :
        /\ rc = 0 => err \in QuietStdErrs
        /\ rc # 0 => ~exists
        /\ ~exists => lines = <<>>
        /\ p' = [args |-> "decompile", returncode |-> rc, stderr |-> err]
        /\ decompiled_exists' = exists
        /\ decompiled_lines' = lines
        /\ running' = running \ {"decompile"}
        /\ trace' = Append(trace, Event("exit", "decompile", rc))
        /\ IF rc # 0
           THEN IF \E sig \in Signatures : InBytes(sig, err)
                THEN /\ pc' = "done"
                     /\ outcome' = "returned"
                     /\ exc' = exc
                ELSE /\ pc' = "done"
                     /\ outcome' = "raised"
                     /\ exc' = << "Exception", err >>
           ELSE /\ pc' = "check_file"
                /\ UNCHANGED << outcome, exc >>
    /\ UNCHANGED << project_files, i, assembly_info, information_keys, result,
                    extracted, supplementary, walk >>

\* lines 44-52: the expected output file; the section and the key set are created
CheckFile ==
    /\ pc = "check_file"
    /\ IF ~decompiled_exists
       THEN /\ pc' = "done"
            /\ outcome' = "raised"
            /\ exc' = << "Exception", << "No ILSpy decompilation found." >> >>
            /\ UNCHANGED << assembly_info, information_keys, i >>
       ELSE /\ pc' = "scan"
            /\ assembly_info' = [items |-> <<>>, subsections |-> <<>>]
            /\ information_keys' = {}
            /\ i' = 1
            /\ UNCHANGED << outcome, exc >>
    /\ UNCHANGED << running, p, decompiled_exists, decompiled_lines, project_files,
                    result, extracted, supplementary, walk, trace >>

\* mutant: any line that is not an attribute line ends the loop
ScanLine_BreakOnFirstOther ==
    /\ pc = "scan"
    /\ i <= Len(decompiled_lines)
    /\ LET line == decompiled_lines[i]
       IN  IF StartsWith(line, Prefix)
           THEN /\ assembly_info' =
                       [assembly_info EXCEPT !.items = Append(@, ParseLine(line))]
                /\ information_keys' = information_keys \cup { ParseLine(line)[1] }
                /\ i' = i + 1
                /\ pc' = pc
           ELSE /\ pc' = "emit"
                /\ UNCHANGED << assembly_info, information_keys, i >>
    /\ UNCHANGED << outcome, exc, running, p, decompiled_exists, decompiled_lines,
                    project_files, result, extracted, supplementary, walk, trace >>

\* mutant: the loop never breaks
ScanLine_NoBreak ==
    /\ pc = "scan"
    /\ i <= Len(decompiled_lines)
    /\ LET line == decompiled_lines[i]
       IN  IF StartsWith(line, Prefix)
           THEN /\ assembly_info' =
                       [assembly_info EXCEPT !.items = Append(@, ParseLine(line))]
                /\ information_keys' = information_keys \cup { ParseLine(line)[1] }
                /\ i' = i + 1
                /\ pc' = pc
           ELSE /\ i' = i + 1
                /\ UNCHANGED << assembly_info, information_keys, pc >>
    /\ UNCHANGED << outcome, exc, running, p, decompiled_exists, decompiled_lines,
                    project_files, result, extracted, supplementary, walk, trace >>

\* mutant: blank lines do not end the loop
ScanLine_SkipBlank ==
    /\ pc = "scan"
    /\ i <= Len(decompiled_lines)
    /\ LET line == decompiled_lines[i]
       IN  IF StartsWith(line, Prefix)
           THEN /\ assembly_info' =
                       [assembly_info EXCEPT !.items = Append(@, ParseLine(line))]
                /\ information_keys' = information_keys \cup { ParseLine(line)[1] }
                /\ i' = i + 1
                /\ pc' = pc
           ELSE IF Body(assembly_info) /\ line # <<"\n">>
                THEN /\ pc' = "emit"
                     /\ UNCHANGED << assembly_info, information_keys, i >>
                ELSE /\ i' = i + 1
                     /\ UNCHANGED << assembly_info, information_keys, pc >>
    /\ UNCHANGED << outcome, exc, running, p, decompiled_exists, decompiled_lines,
                    project_files, result, extracted, supplementary, walk, trace >>

\* lines 56-72: one iteration of the for loop over the file's lines
ScanLine ==
    /\ pc = "scan"
    /\ i <= Len(decompiled_lines)
    /\ LET line == decompiled_lines[i]
       IN  IF StartsWith(line, Prefix)
           THEN /\ assembly_info' =
                       [assembly_info EXCEPT !.items = Append(@, ParseLine(line))]
                /\ information_keys' = information_keys \cup { ParseLine(line)[1] }
                /\ i' = i + 1
                /\ pc' = pc
           ELSE IF Body(assembly_info)
                THEN /\ pc' = "emit"
                     /\ UNCHANGED << assembly_info, information_keys, i >>
                ELSE /\ i' = i + 1
                     /\ UNCHANGED << assembly_info, information_keys, pc >>
    /\ UNCHANGED << outcome, exc, running, p, decompiled_exists, decompiled_lines,
                    project_files, result, extracted, supplementary, walk, trace >>

\* line 56: the file is exhausted
ScanEnd ==
    /\ pc = "scan"
    /\ i > Len(decompiled_lines)
    /\ pc' = "emit"
    /\ UNCHANGED << outcome, exc, running, p, decompiled_exists, decompiled_lines,
                    project_files, i, assembly_info, information_keys, result,
                    extracted, supplementary, walk, trace >>

\* mutant: the advisory is keyed on the attribute's class name
EmitSections_WrongKey ==
    /\ pc = "emit"
    /\ IF Body(assembly_info)
       THEN /\ result' = Append(result, SectionTitle)
            /\ assembly_info' =
                   IF (SuppressIldasm \o <<"A", "t", "t", "r", "i", "b", "u", "t", "e">>)
                          \in information_keys
                   THEN [assembly_info EXCEPT !.subsections = Append(@, AdvisoryTitle)]
                   ELSE assembly_info
            /\ trace' = Append(trace, Event("add_section", SectionTitle, 0))
       ELSE UNCHANGED << result, assembly_info, trace >>
    /\ pc' = "add_extracted"
    /\ UNCHANGED << outcome, exc, running, p, decompiled_exists, decompiled_lines,
                    project_files, i, information_keys, extracted, supplementary,
                    walk >>

\* lines 74-84: the metadata section and its advisory sub-section
EmitSections ==
    /\ pc = "emit"
    /\ IF Body(assembly_info)
       THEN /\ result' = Append(result, SectionTitle)
            /\ assembly_info' =
                   IF SuppressIldasm \in information_keys
                   THEN [assembly_info EXCEPT !.subsections = Append(@, AdvisoryTitle)]
                   ELSE assembly_info
            /\ trace' = Append(trace, Event("add_section", SectionTitle, 0))
       ELSE UNCHANGED << result, assembly_info, trace >>
    /\ pc' = "add_extracted"
    /\ UNCHANGED << outcome, exc, running, p, decompiled_exists, decompiled_lines,
                    project_files, i, information_keys, extracted, supplementary,
                    walk >>

\* lines 86-88
AddExtracted ==
    /\ pc = "add_extracted"
    /\ extracted' = Append(extracted, DecompiledArtifact)
    /\ trace' = Append(trace, Event("add_extracted", "decompiled", 0))
    /\ pc' = "run_il"
    /\ UNCHANGED << outcome, exc, running, p, decompiled_exists, decompiled_lines,
                    project_files, i, assembly_info, information_keys, result,
                    supplementary, walk >>

\* lines 91-100: the IL listing starts
StartIl ==
    /\ pc = "run_il"
    /\ running' = running \cup {"il"}
    /\ trace' = Append(trace, Event("run", "il", 0))
    /\ pc' = "wait_il"
    /\ UNCHANGED << outcome, exc, p, decompiled_exists, decompiled_lines,
                    project_files, i, assembly_info, information_keys, result,
                    extracted, supplementary, walk >>

\* mutant: a failed IL listing ends execute
IlExit_ReturnOnFailure ==
    /\ pc = "wait_il"
    /\ \E rc \in RetCodes :
        /\ p' = [args |-> "il", returncode |-> rc, stderr |-> <<>>]
        /\ running' = running \ {"il"}
        /\ IF rc = 0
           THEN /\ supplementary' = Append(supplementary, IlArtifact)
                /\ trace' = trace \o << Event("exit", "il", rc),
                                        Event("add_supplementary", "il", 0) >>
                /\ pc' = "run_project"
                /\ outcome' = outcome
           ELSE /\ supplementary' = supplementary
                /\ trace' = Append(trace, Event("exit", "il", rc))
                /\ pc' = "done"
                /\ outcome' = "returned"
    /\ UNCHANGED << exc, decompiled_exists, decompiled_lines,
                    project_files, i, assembly_info, information_keys, result,
                    extracted, walk >>

\* lines 100-107: subprocess.run returns; the IL file is registered on exit 0
IlExit ==
    /\ pc = "wait_il"
    /\ \E rc \in RetCodes :
        /\ p' = [args |-> "il", returncode |-> rc, stderr |-> <<>>]
        /\ running' = running \ {"il"}
        /\ IF rc = 0
           THEN /\ supplementary' = Append(supplementary, IlArtifact)
                /\ trace' = trace \o << Event("exit", "il", rc),
                                        Event("add_supplementary", "il", 0) >>
           ELSE /\ supplementary' = supplementary
                /\ trace' = Append(trace, Event("exit", "il", rc))
    /\ pc' = "run_project"
    /\ UNCHANGED << outcome, exc, decompiled_exists, decompiled_lines,
                    project_files, i, assembly_info, information_keys, result,
                    extracted, walk >>

\* mutant: the project extraction is started without waiting for the IL listing
StartProject_NoWait ==
    /\ pc \in { "wait_il", "run_project" }
    /\ running' = running \cup {"project"}
    /\ trace' = Append(trace, Event("run", "project", 0))
    /\ pc' = "wait_project"
    /\ UNCHANGED << outcome, exc, p, decompiled_exists, decompiled_lines,
                    project_files, i, assembly_info, information_keys, result,
                    extracted, supplementary, walk >>

\* lines 110-120: the project extraction starts
StartProject ==
    /\ pc = "run_project"
    /\ running' = running \cup {"project"}
    /\ trace' = Append(trace, Event("run", "project", 0))
    /\ pc' = "wait_project"
    /\ UNCHANGED << outcome, exc, p, decompiled_exists, decompiled_lines,
                    project_files, i, assembly_info, information_keys, result,
                    extracted, supplementary, walk >>

\* lines 120-122: subprocess.run returns; a nonzero exit ends execute
ProjectExit ==
    /\ pc = "wait_project"
    /\ \E rc \in RetCodes, tree \in ProjectTrees :
        /\ p' = [args |-> "project", returncode |-> rc, stderr |-> <<>>]
        /\ project_files' = tree
        /\ running' = running \ {"project"}
        /\ trace' = Append(trace, Event("exit", "project", rc))
        /\ IF rc # 0
           THEN /\ pc' = "done"
                /\ outcome' = "returned"
           ELSE /\ pc' = "archive"
                /\ outcome' = outcome
    /\ UNCHANGED << exc, decompiled_exists, decompiled_lines, i, assembly_info,
                    information_keys, result, extracted, supplementary, walk >>

\* lines 125-128: project.zip is made and registered; os.walk starts
MakeArchive ==
    /\ pc = "archive"
    /\ supplementary' = Append(supplementary, ZipArtifact)
    /\ trace' = Append(trace, Event("add_supplementary", "zip", 0))
    /\ walk' = project_files
    /\ pc' = "walk"
    /\ UNCHANGED << outcome, exc, running, p, decompiled_exists, decompiled_lines,
                    project_files, i, assembly_info, information_keys, result,
                    extracted >>

\* lines 130-136: os.walk yields the next file, in the directory's order
WalkFile ==
    /\ pc = "walk"
    /\ \E f \in walk :
        /\ supplementary' = Append(supplementary, ProjectArtifact(f))
        /\ trace' = Append(trace, Event("add_supplementary", "file", 0))
        /\ walk' = walk \ {f}
    /\ UNCHANGED << pc, outcome, exc, running, p, decompiled_exists,
                    decompiled_lines, project_files, i, assembly_info,
                    information_keys, result, extracted >>

\* line 136: os.walk is exhausted and execute returns
WalkEnd ==
    /\ pc = "walk"
    /\ walk = {}
    /\ pc' = "done"
    /\ outcome' = "returned"
    /\ UNCHANGED << exc, running, p, decompiled_exists, decompiled_lines,
                    project_files, i, assembly_info, information_keys, result,
                    extracted, supplementary, walk, trace >>

Next ==
    \/ StartPrimary
    \/ PrimaryExit
    \/ CheckFile
    \/ ScanLine
    \/ ScanEnd
    \/ EmitSections
    \/ AddExtracted
    \/ StartIl
    \/ IlExit
    \/ StartProject
    \/ ProjectExit
    \/ MakeArchive
    \/ WalkFile
    \/ WalkEnd

Spec == Init /\ [][Next]_vars

TypeOK ==
    /\ pc \in { "start", "wait_primary", "check_file", "scan", "emit",
                "add_extracted", "run_il", "wait_il", "run_project",
                "wait_project", "archive", "walk", "done" }
    /\ outcome \in { "running", "returned", "raised" }
    /\ running \subseteq { "decompile", "il", "project" }
    /\ i \in 1..(MaxLines + 2)

(***************************************************************************)
(* SpecParse: the loop body applied to every short attribute line          *)
(***************************************************************************)
Line_AssemblyTitle == <<"[", "a", "s", "s", "e", "m", "b", "l", "y", ":", " ", "A", "s", "s", "e", "m", "b", "l", "y", "T", "i", "t", "l", "e", "(", "\"", "F", "o", "o", "\"", ")", "]">>
Line_ComVisible == <<"[", "a", "s", "s", "e", "m", "b", "l", "y", ":", " ", "C", "o", "m", "V", "i", "s", "i", "b", "l", "e", "(", "f", "a", "l", "s", "e", ")", "]">>
Line_Debuggable == <<"[", "a", "s", "s", "e", "m", "b", "l", "y", ":", " ", "D", "e", "b", "u", "g", "g", "a", "b", "l", "e", "]">>

ExampleLines == { Line_AssemblyTitle, Line_ComVisible, Line_Debuggable }

ParseAlphabet == { "A", "1", "(", ")", "]" }

\* attribute lines, with and without the line terminator (the last line of a
\* file may lack it)
ParseInputs ==
    { line \o nl :
        line \in { Prefix \o rem : rem \in SeqsUpTo(ParseAlphabet, MaxRem) } \cup ExampleLines,
        nl \in { <<>>, <<"\n">> } }

\* the state CheckFile leaves when the tool wrote a one-line file
InitParse ==
    /\ pc = "scan"
    /\ outcome = "running"
    /\ exc = <<>>
    /\ running = {}
    /\ p = [args |-> "decompile", returncode |-> 0, stderr |-> <<>>]
    /\ decompiled_exists = TRUE
    /\ decompiled_lines \in { << line >> : line \in ParseInputs }
    /\ project_files = {}
    /\ i = 1
    /\ assembly_info = [items |-> <<>>, subsections |-> <<>>]
    /\ information_keys = {}
    /\ result = <<>>
    /\ extracted = <<>>
    /\ supplementary = <<>>
    /\ walk = {}
    /\ trace = << Event("run", "decompile", 0), Event("exit", "decompile", 0) >>

NextParse ==
    \/ ScanLine
    \/ ScanEnd
    \/ EmitSections

SpecParse == InitParse /\ [][NextParse]_vars

(***************************************************************************)
(* Properties                                                              *)
(***************************************************************************)
Range(s) == { s[n] : n \in 1..Len(s) }

HasPrefix(line) ==
    /\ Len(line) >= 11
    /\ [n \in 1..11 |-> line[n]] = Prefix

Remainder(line) == [n \in 1..(Len(line) - 11) |-> line[n + 11]]

Positions(s, c) == { n \in 1..Len(s) : s[n] = c }

Min(S) == CHOOSE n \in S : \A m \in S : n <= m

Max(S) == CHOOSE n \in S : \A m \in S : n >= m

Between(s, a, b) == [n \in 1..(b - a - 1) |-> s[a + n]]

\* the text of s before the first c, all of s when c does not occur
Before(s, c) ==
    IF Positions(s, c) = {} THEN s ELSE [n \in 1..(Min(Positions(s, c)) - 1) |-> s[n]]

HasParenPair(rem) ==
    \E a \in Positions(rem, "("), b \in Positions(rem, ")") : a < b

\* the line the single-line file holds has been read by the loop
LineRead ==
    /\ Len(decompiled_lines) = 1
    /\ HasPrefix(decompiled_lines[1])
    /\ i = 2

WithOrWithoutNewline(line) == { line, line \o <<"\n">> }

Str_AssemblyTitle == <<"A", "s", "s", "e", "m", "b", "l", "y", "T", "i", "t", "l", "e">>
Str_Foo == <<"F", "o", "o">>
Str_QuotedFoo == <<"\"", "F", "o", "o", "\"">>
Str_ComVisible == <<"C", "o", "m", "V", "i", "s", "i", "b", "l", "e">>
Str_false == <<"f", "a", "l", "s", "e">>
Str_Debuggable == <<"D", "e", "b", "u", "g", "g", "a", "b", "l", "e">>

ExampleEntries(titleValue) ==
    /\ decompiled_lines[1] \in WithOrWithoutNewline(Line_AssemblyTitle)
          => assembly_info.items = << << Str_AssemblyTitle, titleValue >> >>
    /\ decompiled_lines[1] \in WithOrWithoutNewline(Line_ComVisible)
          => assembly_info.items = << << Str_ComVisible, Str_false >> >>
    /\ decompiled_lines[1] \in WithOrWithoutNewline(Line_Debuggable)
          => assembly_info.items = << << Str_Debuggable, <<>> >> >>

\* C4 (as stated): the three example lines record AssemblyTitle -> Foo,
\* ComVisible -> false and Debuggable -> "" (the empty string).
C4_ExamplesAsListed == LineRead => ExampleEntries(Str_Foo)

\* C4 (amended): the three example lines record AssemblyTitle -> "Foo" with
\* its quotation marks kept, ComVisible -> false and Debuggable -> "".
C4_ExamplesQuoted == LineRead => ExampleEntries(Str_QuotedFoo)

C4_Witness ==
    /\ LineRead
    /\ decompiled_lines[1] = Line_AssemblyTitle
    /\ assembly_info.items = << << Str_AssemblyTitle, Str_QuotedFoo >> >>

\* C5: for a line beginning with "[assembly: ", with rem the text after the
\* prefix: when rem has no "(" followed later by a ")", the key is rem up to
\* its first "]" and the value is empty; otherwise the key is rem before its
\* first "(" and the value is the text between that "(" and the last ")".
C5_ParseRule ==
    LineRead =>
        LET rem == Remainder(decompiled_lines[1])
        IN  assembly_info.items =
              IF ~HasParenPair(rem)
              THEN << << Before(rem, "]"), <<>> >> >>
              ELSE << << Before(rem, "("),
                         Between(rem, Min(Positions(rem, "(")), Max(Positions(rem, ")"))) >> >>

(***************************************************************************)
(* Properties of a whole run (Spec)                                        *)
(***************************************************************************)
Events(ev, what) == { n \in 1..Len(trace) : trace[n].ev = ev /\ trace[n].what = what }

Issued(mode) == Events("run", mode) # {}

\* the exit code of the invocation, once it has finished
ExitCode(mode) == trace[Min(Events("exit", mode))].rc

Exited(mode) == Events("exit", mode) # {}

NothingPublished ==
    /\ result = <<>>
    /\ assembly_info.subsections = <<>>
    /\ extracted = <<>>
    /\ supplementary = <<>>
    /\ ~Issued("il")
    /\ ~Issued("project")

MentionsBenignSignature(err) ==
    \/ "System.BadImageFormatException" \in Range(err)
    \/ "PEFileNotSupportedException" \in Range(err)
    \/ "System.NullReferenceException: Object reference not set to an instance of an object" \in Range(err)
    \/ "PE file does not contain any managed metadata" \in Range(err)

PrimaryFinished == p.args = "decompile"

\* C1: a nonzero exit of the whole-file decompilation whose stderr holds one
\* of the four signatures ends execute with a normal return: no section, no
\* artifact, no exception, and neither the IL listing nor the project
\* extraction is run.
C1_BenignSkip ==
    (PrimaryFinished /\ p.returncode # 0 /\ MentionsBenignSignature(p.stderr))
        => /\ pc = "done"
           /\ outcome = "returned"
           /\ exc = <<>>
           /\ NothingPublished

C1_Witness ==
    /\ PrimaryFinished
    /\ p.returncode # 0
    /\ p.stderr = << "Unhandled exception", "PE file does not contain any managed metadata" >>
    /\ outcome = "returned"
    /\ NothingPublished

\* C2: a nonzero exit whose stderr holds none of the four signatures raises
\* an exception carrying the stderr, and an exit 0 without the expected
\* .decompiled.cs file raises too; in both cases execute stops there, with
\* no section, no artifact and no further invocation.
C2_FatalPrimary ==
    /\ (PrimaryFinished /\ p.returncode # 0 /\ ~MentionsBenignSignature(p.stderr))
          => /\ pc = "done"
             /\ outcome = "raised"
             /\ exc = << "Exception", p.stderr >>
             /\ NothingPublished
    /\ (PrimaryFinished /\ p.returncode = 0 /\ ~decompiled_exists)
          => /\ pc \in { "check_file", "done" }
             /\ pc = "done" =>
                   /\ outcome = "raised"
                   /\ exc = << "Exception", << "No ILSpy decompilation found." >> >>
             /\ NothingPublished

C2_Witness ==
    /\ PrimaryFinished
    /\ p.returncode # 0
    /\ p.stderr = << "System.NullReferenceException", "Unhandled exception" >>
    /\ outcome = "raised"
    /\ exc = << "Exception", p.stderr >>

C2_WitnessMissingFile ==
    /\ PrimaryFinished
    /\ p.returncode = 0
    /\ ~decompiled_exists
    /\ outcome = "raised"

\* the whole-file decompilation exited 0 and left its output file
PrimaryOK ==
    /\ decompiled_exists
    /\ Exited("decompile")
    /\ ExitCode("decompile") = 0

\* the for loop and the if after it have run
AfterEmit == pc \notin { "check_file", "scan", "emit" } /\ PrimaryOK

AttributeLines == { n \in 1..Len(decompiled_lines) : HasPrefix(decompiled_lines[n]) }

\* C3: after an exit 0 with the output file present, the "Assembly
\* Information" section is in the result iff some line of the file, wherever
\* it is, begins with "[assembly: ".
C3_SectionIffAttribute ==
    IF pc \in { "check_file", "scan", "emit" }
    THEN result = <<>>
    ELSE PrimaryOK =>
            ((\E n \in 1..Len(result) : result[n] = SectionTitle)
                <=> (\E n \in 1..Len(decompiled_lines) : HasPrefix(decompiled_lines[n])))

C3_Witness ==
    /\ AfterEmit
    /\ decompiled_lines = << Line_Namespace, Line_Blank, Line_A1 >>
    /\ result = << SectionTitle >>

C3_WitnessNone ==
    /\ AfterEmit
    /\ decompiled_lines = << Line_Namespace, Line_Blank >>
    /\ result = <<>>

\* what each line of LinePool declares
EntryOf(line) ==
    CASE line = Line_A1 -> << <<"A">>, <<"1">> >>
      [] line = Line_B2 -> << <<"B">>, <<"2">> >>
      [] line = Line_C3 -> << <<"C">>, <<"3">> >>
      [] line = Line_Suppress -> << SuppressIldasm, <<>> >>

\* first line of the first run of attribute lines among attrs
RunStartOf(attrs) == Min(attrs)

\* the line after the end of that run
RunEndOf(attrs) ==
    LET start == RunStartOf(attrs)
    IN  Min({ n \in (start + 1)..(Len(decompiled_lines) + 1) : n \notin attrs })

\* C6: the recorded entries are one entry per line of the first maximal
\* contiguous run of attribute lines, in order, duplicates kept; attribute
\* lines after the line that ends the run are not recorded.
C6_FirstRunOnly ==
    AfterEmit =>
        LET attrs == AttributeLines
            start == RunStartOf(attrs)
            end   == RunEndOf(attrs)
        IN  assembly_info.items =
                IF attrs = {} THEN <<>>
                ELSE [n \in 1..(end - start) |-> EntryOf(decompiled_lines[start + n - 1])]

C6_Witness ==
    /\ AfterEmit
    /\ decompiled_lines = << Line_A1, Line_B2, Line_Namespace, Line_C3 >>
    /\ assembly_info.items = << << <<"A">>, <<"1">> >>, << <<"B">>, <<"2">> >> >>

C6_WitnessDuplicate ==
    /\ AfterEmit
    /\ decompiled_lines = << Line_Blank, Line_A1, Line_A1 >>
    /\ assembly_info.items = << << <<"A">>, <<"1">> >>, << <<"A">>, <<"1">> >> >>

IsBlank(line) == line = <<"\n">>

\* the first line after the first attribute that is neither an attribute
\* line nor blank
FirstCodeLineOf(attrs) ==
    LET start == RunStartOf(attrs)
    IN  Min({ n \in (start + 1)..(Len(decompiled_lines) + 1) :
                n \notin attrs
                /\ (n <= Len(decompiled_lines) => ~IsBlank(decompiled_lines[n])) })

\* C7 (as stated): once an attribute is recorded the scan stops at the first
\* line that is neither an attribute nor blank, so a blank line does not end
\* it and an attribute line that follows only blank lines is recorded.
C7_BlankLinesSkipped ==
    AfterEmit =>
        LET attrs == AttributeLines
            stop  == FirstCodeLineOf(attrs)
        IN  attrs # {} =>
                /\ i = stop
                /\ Len(assembly_info.items) = Cardinality({ n \in attrs : n < stop })

\* C7 (amended): once an attribute is recorded the scan stops at the first
\* line that is not an attribute line, blank or not, so a blank line ends it
\* and an attribute line that follows the blank line is not recorded.
C7_AnyLineEndsScan ==
    LET attrs == AttributeLines
        start == RunStartOf(attrs)
        end   == RunEndOf(attrs)
    IN  /\ (AfterEmit /\ attrs # {}) =>
              /\ i = end
              /\ Len(assembly_info.items) = end - start
        /\ (pc = "scan" /\ assembly_info.items # <<>>) =>
              \A n \in start..(i - 1) : n \in attrs

C7_Witness ==
    /\ AfterEmit
    /\ decompiled_lines = << Line_A1, Line_Blank, Line_B2 >>
    /\ i = 2
    /\ assembly_info.items = << << <<"A">>, <<"1">> >> >>

ProjectArtifacts == { a \in Range(supplementary) : a.description = "Project file" }

\* C8: after an exit 0 with the output file present execute never raises,
\* whatever the IL listing and the project extraction exit with; when it
\* returns, both have been run, the decompiled file is the extracted
\* artifact, the IL artifact is registered iff the IL listing exited 0, and
\* project.zip and one artifact per project file are registered iff the
\* project extraction exited 0.
C8_SecondaryStagesIndependent ==
    PrimaryOK =>
        /\ outcome # "raised"
        /\ exc = <<>>
        /\ outcome = "returned" =>
              /\ Exited("il")
              /\ Exited("project")
              /\ extracted = << DecompiledArtifact >>
              /\ LET ilOK      == ExitCode("il") = 0
                     projectOK == ExitCode("project") = 0
                     published == Range(supplementary)
                 IN  /\ IlArtifact \in published <=> ilOK
                     /\ ZipArtifact \in published <=> projectOK
                     /\ { a \in published : a.description = "Project file" } =
                           IF projectOK
                           THEN { [name |-> IF f[1] = "." THEN << f[2] >> ELSE << f[1], f[2] >>,
                                   description |-> "Project file"] : f \in project_files }
                           ELSE {}
                     /\ Len(supplementary) =
                           (IF ilOK THEN 1 ELSE 0)
                           + (IF projectOK THEN 1 + Cardinality(project_files) ELSE 0)

C8_Witness ==
    /\ PrimaryOK
    /\ outcome = "returned"
    /\ ExitCode("il") # 0
    /\ ExitCode("project") = 0
    /\ Cardinality(ProjectArtifacts) = 1
    /\ ZipArtifact \in Range(supplementary)
    /\ IlArtifact \notin Range(supplementary)

C8_WitnessProjectFails ==
    /\ PrimaryOK
    /\ outcome = "returned"
    /\ ExitCode("il") = 0
    /\ ExitCode("project") # 0
    /\ supplementary = << IlArtifact >>
    /\ extracted = << DecompiledArtifact >>

RecordedKeys == { assembly_info.items[n][1] : n \in 1..Len(assembly_info.items) }

HasAdvisory == AdvisoryTitle \in Range(assembly_info.subsections)

\* C9: when the metadata section is emitted, the "SuppressIldasm attribute
\* found" sub-section exists under it iff some recorded key equals
\* SuppressIldasm; the sub-section never exists without the emitted section.
C9_AdvisoryIffSuppressIldasm ==
    /\ (AfterEmit /\ SectionTitle \in Range(result)) =>
          /\ HasAdvisory <=> SuppressIldasm \in RecordedKeys
          /\ Len(assembly_info.subsections) <= 1
    /\ assembly_info.subsections # <<>> => SectionTitle \in Range(result)

C9_Witness ==
    /\ AfterEmit
    /\ decompiled_lines = << Line_A1, Line_Suppress, Line_B2 >>
    /\ result = << SectionTitle >>
    /\ HasAdvisory

C9_WitnessNone ==
    /\ AfterEmit
    /\ decompiled_lines = << Line_A1, Line_Namespace, Line_Suppress >>
    /\ result = << SectionTitle >>
    /\ ~HasAdvisory

RunEvents == { n \in 1..Len(trace) : trace[n].ev = "run" }

\* every position of later comes after some position of earlier
After(later, earlier) == \A n \in later : \E m \in earlier : m < n

\* every position of earlier comes before every position of later
AllBefore(earlier, later) == \A n \in earlier : \A m \in later : n < m

\* C10: the three invocations run one at a time, in the order whole-file
\* decompilation, IL listing, project extraction; the decompiled file is
\* registered before the IL listing is started, the IL artifact before the
\* project extraction is started, and project.zip before any project file.
C10_SequentialOrder ==
    LET runDecompile  == Events("run", "decompile")
        exitDecompile == Events("exit", "decompile")
        runIl         == Events("run", "il")
        exitIl        == Events("exit", "il")
        runProject    == Events("run", "project")
        exitProject   == Events("exit", "project")
        addDecompiled == Events("add_extracted", "decompiled")
        addIl         == Events("add_supplementary", "il")
        addZip        == Events("add_supplementary", "zip")
        addFile       == Events("add_supplementary", "file")
    IN  /\ Cardinality(running) <= 1
        /\ Cardinality(runDecompile) <= 1
        /\ Cardinality(runIl) <= 1
        /\ Cardinality(runProject) <= 1
        /\ "decompile" \in running <=> (runDecompile # {} /\ exitDecompile = {})
        /\ "il" \in running <=> (runIl # {} /\ exitIl = {})
        /\ "project" \in running <=> (runProject # {} /\ exitProject = {})
        /\ After(exitDecompile, runDecompile)
        /\ After(exitIl, runIl)
        /\ After(exitProject, runProject)
        /\ After(runIl, exitDecompile)
        /\ After(runProject, exitIl)
        /\ After(runIl, addDecompiled)
        /\ Cardinality(addDecompiled) <= 1
        /\ After(addIl, exitIl)
        /\ AllBefore(addIl, runProject)
        /\ After(addZip, exitProject)
        /\ After(addFile, addZip)
        /\ \A n \in 1..Len(supplementary) :
              supplementary[n].description = "Project file"
                  => \E m \in 1..(n - 1) : supplementary[m] = ZipArtifact

C10_Witness ==
    /\ outcome = "returned"
    /\ Len(supplementary) = 3
    /\ supplementary[3].description = "Project file"
    /\ supplementary[1] = IlArtifact
    /\ supplementary[2] = ZipArtifact
    /\ extracted = << DecompiledArtifact >>
    /\ Cardinality(RunEvents) = 3

====
